---- MODULE Spec2Model ----
(***************************************************************************)
(* Model of src/commands.rs of nh: Command (exec, exec_capture),           *)
(* BuildCommand (exec, direct and nom-pipeline mode), edit and edit_with.  *)
(* A call is one run of the state machine: the caller builds its value,    *)
(* enters the function, the child processes it spawned run and exit, and   *)
(* the function returns `result`.                                          *)
(***************************************************************************)
EXTENDS Integers, Sequences, FiniteSets, TLC

\* ------------------------------------------------------------------ bounds
MaxArgs == 2        \* longest args vector a CommandBuilder accumulates
MaxRefLen == 4      \* longest flake reference handed to edit / edit_with
MaxCode == 1        \* largest exit code a child exits with
MaxOut == 2         \* most bytes a child writes before it exits
PipeCap == 1        \* bytes the pipe between the two stages buffers

\* ------------------------------------------------------------------ values
None == [some |-> FALSE, val |-> ""]
Some(v) == [some |-> TRUE, val |-> v]
NoText == [some |-> FALSE, val |-> <<>>]

ArgWords == {"prog", "x"}
Messages == {"msg"}
RefChars == {"a", "/", "#"}
Editors == {"vi"}
BuildRefs == {".#host"}
ExtraArgSets == {<<>>, <<"--impure">>}
\* an ASCII byte, and 0xFF, which no UTF-8 sequence contains
Bytes == {97, 255}
Fds == {"stdout", "stderr"}

RECURSIVE SeqsUpTo(_, _)
SeqsUpTo(S, n) ==
    IF n = 0 THEN {<<>>}
    ELSE LET shorter == SeqsUpTo(S, n - 1)
         IN  shorter \cup {Append(s, x) : s \in shorter, x \in S}

\* subprocess::ExitStatus
Exited(c) == [kind |-> "Exited", code |-> c]
Signaled(s) == [kind |-> "Signaled", code |-> s]
Undetermined == [kind |-> "Undetermined", code |-> 0]
NoStatus == [kind |-> "NoStatus", code |-> 0]
ExitStatuses == {Exited(c) : c \in 0..MaxCode} \cup {Signaled(9), Undetermined}

\* color_eyre::Result of the call
NoResult == [kind |-> "Pending", err |-> "", status |-> NoStatus,
             context |-> None, value |-> NoText]
Ok == [kind |-> "Ok", err |-> "", status |-> NoStatus,
       context |-> None, value |-> NoText]
OkValue(v) == [Ok EXCEPT !.value = v]
Err(e) == [kind |-> "Err", err |-> e, status |-> NoStatus,
           context |-> None, value |-> NoText]
Panic(e) == [kind |-> "Panic", err |-> e, status |-> NoStatus,
             context |-> None, value |-> NoText]
WrapErr(r, m) == IF r.kind = "Err" THEN [r EXCEPT !.context = Some(m)] ELSE r

NoCommand == [dry |-> FALSE, message |-> None, args |-> <<>>]
NoBuild == [message |-> "", flakeref |-> "", extra_args |-> <<>>, nom |-> FALSE]
NoCall == [op |-> "none", cmd |-> NoCommand, build |-> NoBuild,
           flakeref |-> <<>>, editor |-> None]

VARIABLES
    builder,    \* CommandBuilder: the fields set so far
    call,       \* the running call: function and the value it runs on
    pc,         \* where the caller is: idle, built, wait, drop, done
    procs,      \* the child processes spawned by the call, in spawn order
    joined,     \* what the join / capture of the call produced
    pipe,       \* the stream between pipeline stage A and stage B
    bIn,        \* bytes stage B has read from its standard input
    bEof,       \* stage B has seen end-of-input
    captured,   \* bytes exec_capture has collected from the child's stdout
    log,        \* tracing events emitted by the call
    result      \* what the call returned

vars == <<builder, call, pc, procs, joined, pipe, bIn, bEof, captured, log, result>>

NoPipe == [buf |-> <<>>, wopen |-> FALSE, ropen |-> FALSE]
NoJoin == [ok |-> FALSE, err |-> "", status |-> NoStatus]
EmptyBuilder == [dry |-> [some |-> FALSE, val |-> FALSE], message |-> None,
                 args |-> NoText]

Init ==
    /\ builder = EmptyBuilder
    /\ call = NoCall
    /\ pc = "idle"
    /\ procs = <<>>
    /\ joined = NoJoin
    /\ pipe = NoPipe
    /\ bIn = <<>>
    /\ bEof = FALSE
    /\ captured = <<>>
    /\ log = <<>>
    /\ result = NoResult

\* ------------------------------------------------------- child processes
\* a subprocess::Popen and the child behind it
ProcRec(prog, args, cwd, stdin, stdout, stderr) ==
    [prog |-> prog, args |-> args, cwd |-> cwd, stdin |-> stdin,
     stdout |-> stdout, stderr |-> stderr, state |-> "running",
     status |-> NoStatus, wrote |-> <<>>]

NoCwd == [some |-> FALSE, val |-> <<>>]

\* where a byte the child writes to fd ends up, by the Redirection of the Exec
Dest(p, fd) ==
    IF fd = "stdout" THEN p.stdout
    ELSE IF p.stderr = "Merge" THEN p.stdout ELSE p.stderr

IsPipeline == call.op = "build" /\ call.build.nom

\* a reader of the pipe sees end-of-input once the write end is closed and
\* the buffer is drained
EofVisible(p) == ~p.wopen /\ p.buf = <<>>

\* bytes of what a child wrote, whichever fd
WroteBytes(p) == [i \in 1..Len(p.wrote) |-> p.wrote[i].byte]

\* A child whose standard output is a pipe writes one byte to stdout or stderr.
\* (Output that goes to the inherited terminal is not part of the state.)
ChildWrite(i, fd, b) ==
    /\ pc \in {"wait", "drop"}
    /\ i \in 1..Len(procs)
    /\ procs[i].state = "running"
    /\ procs[i].stdout = "Pipe"
    /\ Len(procs[i].wrote) < MaxOut
    /\ LET dest == Dest(procs[i], fd) IN
       /\ IF dest = "Pipe" /\ IsPipeline
          THEN /\ pipe.ropen
               /\ Len(pipe.buf) < PipeCap
               /\ pipe' = [pipe EXCEPT !.buf = Append(@, b)]
               /\ captured' = captured
          ELSE IF dest = "Pipe"
          THEN /\ captured' = Append(captured, b)
               /\ pipe' = pipe
          ELSE UNCHANGED <<pipe, captured>>
    /\ procs' = [procs EXCEPT ![i].wrote = Append(@, [fd |-> fd, byte |-> b])]
    /\ UNCHANGED <<builder, call, pc, joined, bIn, bEof, log, result>>

\* A child terminates, with any status; its ends of the pipe close.
ChildExit(i, st) ==
    /\ pc \in {"wait", "drop"}
    /\ i \in 1..Len(procs)
    /\ procs[i].state = "running"
    /\ procs' = [procs EXCEPT ![i].state = "exited", ![i].status = st]
    /\ pipe' = IF ~IsPipeline THEN pipe
               ELSE IF i = 1 THEN [pipe EXCEPT !.wopen = FALSE]
               ELSE [pipe EXCEPT !.ropen = FALSE]
    /\ UNCHANGED <<builder, call, pc, joined, bIn, bEof, captured, log, result>>

\* Stage B reads one byte from its standard input.
StageBRead ==
    /\ IsPipeline
    /\ Len(procs) = 2
    /\ procs[2].state = "running"
    /\ pipe.buf # <<>>
    /\ bIn' = Append(bIn, Head(pipe.buf))
    /\ pipe' = [pipe EXCEPT !.buf = Tail(@)]
    /\ UNCHANGED <<builder, call, pc, procs, joined, bEof, captured, log, result>>

\* Stage B's read returns end-of-input.
StageBEof ==
    /\ IsPipeline
    /\ Len(procs) = 2
    /\ procs[2].state = "running"
    /\ ~bEof
    /\ EofVisible(pipe)
    /\ bEof' = TRUE
    /\ UNCHANGED <<builder, call, pc, procs, joined, pipe, bIn, captured, log, result>>

\* ------------------------------------------------------- CommandBuilder
\* CommandBuilder::args: get_or_insert_with(Default::default).extend(input)
ExtendArgs(cur, input) == [some |-> TRUE, val |-> cur.val \o input]

BuilderArgs(input) ==
    /\ pc = "idle"
    /\ Len(builder.args.val) + Len(input) <= MaxArgs
    /\ builder' = [builder EXCEPT !.args = ExtendArgs(@, input)]
    /\ UNCHANGED <<call, pc, procs, joined, pipe, bIn, bEof, captured, log, result>>

BuilderDry(d) ==
    /\ pc = "idle"
    /\ builder' = [builder EXCEPT !.dry = [some |-> TRUE, val |-> d]]
    /\ UNCHANGED <<call, pc, procs, joined, pipe, bIn, bEof, captured, log, result>>

BuilderMessage(m) ==
    /\ pc = "idle"
    /\ builder' = [builder EXCEPT !.message = Some(m)]
    /\ UNCHANGED <<call, pc, procs, joined, pipe, bIn, bEof, captured, log, result>>

\* CommandBuilder::build: dry defaults to false, message to None, args is required
BuiltCommand(b) ==
    [dry |-> IF b.dry.some THEN b.dry.val ELSE FALSE,
     message |-> b.message,
     args |-> b.args.val]

Build ==
    /\ pc = "idle"
    /\ IF builder.args.some
       THEN /\ call' = [call EXCEPT !.op = "command", !.cmd = BuiltCommand(builder)]
            /\ pc' = "built"
            /\ result' = result
       ELSE /\ call' = [call EXCEPT !.op = "builder"]
            /\ pc' = "done"
            /\ result' = Err("UninitializedField(args)")
    /\ UNCHANGED <<builder, procs, joined, pipe, bIn, bEof, captured, log>>

\* ------------------------------------------------------- Command
\* mutant of SplitArgs: the pattern is taken to match an empty slice too
SplitArgsNoCheck(args) ==
    [ok |-> TRUE,
     head |-> IF Len(args) > 0 THEN Head(args) ELSE "",
     tail |-> IF Len(args) > 0 THEN Tail(args) ELSE <<>>]

\* let [head, tail @ ..] = &*self.args else { bail!(..) }: head and tail are
\* bound only when the pattern matches
SplitArgs(args) ==
    [ok |-> Len(args) > 0,
     head |-> IF Len(args) > 0 THEN Head(args) ELSE "",
     tail |-> IF Len(args) > 0 THEN Tail(args) ELSE <<>>]

ArgsLengthError == Err("Args was length 0")

\* if let Some(m) = &self.message { info!("{}", m) }; debug!(?cmd)
CommandLog(cmd) ==
    (IF cmd.message.some
     THEN <<[level |-> "info", msg |-> cmd.message.val, cmd |-> <<>>]>>
     ELSE <<>>)
    \o <<[level |-> "debug", msg |-> "", cmd |-> cmd.args]>>

\* mutant of ShouldRun: the dry flag is ignored
ShouldRunAlways(cmd) == TRUE

\* if !self.dry
ShouldRun(cmd) == ~cmd.dry

JoinOk(st) == [ok |-> TRUE, err |-> "", status |-> st]
JoinErr(e) == [ok |-> FALSE, err |-> e, status |-> NoStatus]

\* mutant of CommandExecReturn: a child that did not exit 0 is an error
CommandExecReturnChecked(cmd, j) ==
    IF j.ok /\ j.status = Exited(0) THEN Ok
    ELSE IF cmd.message.some THEN WrapErr(Err("PopenError"), cmd.message.val)
    ELSE Err("PopenError")

\* cmd.join().wrap_err(m.clone())? / cmd.join()? ; Ok(())
CommandExecReturn(cmd, j) ==
    IF j.ok THEN Ok
    ELSE IF cmd.message.some THEN WrapErr(Err("PopenError"), cmd.message.val)
    ELSE Err("PopenError")

\* String::from_utf8_lossy of the captured bytes, as code points: an ASCII
\* byte is its own character, an invalid byte becomes U+FFFD
Utf8Lossy(bytes) ==
    [i \in 1..Len(bytes) |-> IF bytes[i] < 128 THEN bytes[i] ELSE 65533]

\* mutant of CaptureValue: empty output is reported as absent
CaptureValueNonEmpty(bytes) ==
    IF bytes = <<>> THEN NoText ELSE [some |-> TRUE, val |-> Utf8Lossy(bytes)]

\* Ok(Some(cmd.capture()?.stdout_str()))
CaptureValue(bytes) == [some |-> TRUE, val |-> Utf8Lossy(bytes)]

CommandExecCaptureReturn(cmd, j, bytes) ==
    IF j.ok THEN OkValue(CaptureValue(bytes)) ELSE Err("PopenError")

\* Command::exec up to the point where it blocks in join
CommandExec ==
    /\ pc = "built"
    /\ LET cmd == call.cmd
           sp == SplitArgs(cmd.args)
       IN
       /\ call' = [call EXCEPT !.op = "exec"]
       /\ IF ~sp.ok
          THEN /\ result' = ArgsLengthError
               /\ pc' = "done"
               /\ UNCHANGED <<procs, joined, log>>
          ELSE /\ log' = log \o CommandLog(cmd)
               /\ IF ~ShouldRun(cmd)
                  THEN /\ result' = Ok
                       /\ pc' = "done"
                       /\ UNCHANGED <<procs, joined>>
                  ELSE \E spawnOk \in BOOLEAN :
                       IF spawnOk
                       THEN /\ procs' = <<ProcRec(sp.head, sp.tail, NoCwd,
                                                  "Inherit", "Inherit", "Inherit")>>
                            /\ pc' = "wait"
                            /\ UNCHANGED <<joined, result>>
                       ELSE /\ joined' = JoinErr("spawn")
                            /\ result' = CommandExecReturn(cmd, JoinErr("spawn"))
                            /\ pc' = "done"
                            /\ procs' = procs
    /\ UNCHANGED <<builder, pipe, bIn, bEof, captured>>

\* join returns once the child has exited
CommandExecJoin ==
    /\ pc = "wait"
    /\ call.op = "exec"
    /\ procs[1].state = "exited"
    /\ \E waitOk \in BOOLEAN :
         LET j == IF waitOk THEN JoinOk(procs[1].status) ELSE JoinErr("wait") IN
         /\ joined' = j
         /\ result' = CommandExecReturn(call.cmd, j)
    /\ pc' = "done"
    /\ UNCHANGED <<builder, call, procs, pipe, bIn, bEof, captured, log>>

\* Command::exec_capture up to the point where it blocks in capture
CommandExecCapture ==
    /\ pc = "built"
    /\ LET cmd == call.cmd
           sp == SplitArgs(cmd.args)
       IN
       /\ call' = [call EXCEPT !.op = "exec_capture"]
       /\ IF ~sp.ok
          THEN /\ result' = ArgsLengthError
               /\ pc' = "done"
               /\ UNCHANGED <<procs, joined, log>>
          ELSE /\ log' = log \o CommandLog(cmd)
               /\ IF ~ShouldRun(cmd)
                  THEN /\ result' = OkValue(NoText)
                       /\ pc' = "done"
                       /\ UNCHANGED <<procs, joined>>
                  ELSE \E spawnOk \in BOOLEAN :
                       IF spawnOk
                       THEN /\ procs' = <<ProcRec(sp.head, sp.tail, NoCwd,
                                                  "Inherit", "Pipe", "Inherit")>>
                            /\ pc' = "wait"
                            /\ UNCHANGED <<joined, result>>
                       ELSE /\ joined' = JoinErr("spawn")
                            /\ result' = CommandExecCaptureReturn(cmd, JoinErr("spawn"), <<>>)
                            /\ pc' = "done"
                            /\ procs' = procs
    /\ UNCHANGED <<builder, pipe, bIn, bEof, captured>>

\* capture has read the child's standard output to its end and waited
CommandExecCaptureJoin ==
    /\ pc = "wait"
    /\ call.op = "exec_capture"
    /\ procs[1].state = "exited"
    /\ \E waitOk \in BOOLEAN :
         LET j == IF waitOk THEN JoinOk(procs[1].status) ELSE JoinErr("wait") IN
         /\ joined' = j
         /\ result' = CommandExecCaptureReturn(call.cmd, j, captured)
    /\ pc' = "done"
    /\ UNCHANGED <<builder, call, procs, pipe, bIn, bEof, captured, log>>

\* ------------------------------------------------------- BuildCommand
\* BuildCommandBuilder: message, flakeref and nom are set, extra_args extended
BuildCommands ==
    [message : Messages, flakeref : BuildRefs,
     extra_args : {ExtendArgs(NoText, x).val : x \in ExtraArgSets}, nom : BOOLEAN]

\* mutant of StageA: standard error is not merged into standard output
StageAUnmerged(b) ==
    ProcRec("nix",
            <<"build", b.flakeref, "--log-format", "internal-json", "--verbose">>
                \o b.extra_args,
            NoCwd, "Inherit", "Pipe", "Inherit")

\* stage A of the pipeline: nix build <flakeref> --log-format internal-json
\* --verbose <extra_args>, stdout to the pipe, stderr merged into stdout
StageA(b) ==
    ProcRec("nix",
            <<"build", b.flakeref, "--log-format", "internal-json", "--verbose">>
                \o b.extra_args,
            NoCwd, "Inherit", "Pipe", "Merge")

\* stage B of the pipeline: nom --json, reading the pipe, stdout inherited
StageB == ProcRec("nom", <<"--json">>, NoCwd, "Pipe", "Inherit", "Inherit")

\* direct mode: nix build <flakeref> <extra_args>
Direct(b) ==
    ProcRec("nix", <<"build", b.flakeref>> \o b.extra_args,
            NoCwd, "Inherit", "Inherit", "Merge")

\* mutant of JoinStatus: the status of the first command
JoinStatusFirst(ps) == ps[1].status

\* Pipeline::join / Exec::join: the status of the last command
JoinStatus(ps) == ps[Len(ps)].status

\* the Popen values of the call go out of scope when join returns; a Popen
\* that is not detached waits for its child when dropped
DropDone(ps) == \A i \in 1..Len(ps) : ps[i].state = "exited"

\* mutant of ExitIsSuccess: any normal exit counts, whatever its code
ExitIsSuccessAnyCode(st) == st.kind = "Exited"

\* ExitStatus::Exited(0) => ()
ExitIsSuccess(st) == st = Exited(0)

\* other => bail!(ExitError(other))
ExitError(st) == [Err("ExitError") EXCEPT !.status = st]

\* match exit.wrap_err(self.message.clone())? { .. } ; Ok(())
BuildExecReturn(b, j) ==
    IF ~j.ok THEN WrapErr(Err("PopenError"), b.message)
    ELSE IF ExitIsSuccess(j.status) THEN Ok
    ELSE ExitError(j.status)

\* BuildCommand::exec up to the point where it blocks in join. `started` is
\* the number of commands the operating system could start.
BuildExec(b, started) ==
    /\ pc = "idle"
    /\ builder = EmptyBuilder
    /\ call' = [call EXCEPT !.op = "build", !.build = b]
    /\ log' = log \o <<[level |-> "info", msg |-> b.message, cmd |-> <<>>],
                       [level |-> "debug", msg |-> "",
                        cmd |-> IF b.nom THEN StageA(b).args \o StageB.args
                                ELSE Direct(b).args]>>
    /\ IF b.nom
       THEN /\ started \in 0..2
            /\ procs' = SubSeq(<<StageA(b), StageB>>, 1, started)
            /\ pipe' = [buf |-> <<>>, wopen |-> started >= 1, ropen |-> started = 2]
            /\ joined' = IF started = 2 THEN joined ELSE JoinErr("spawn")
            /\ pc' = IF started = 2 THEN "wait" ELSE "drop"
       ELSE /\ started \in 0..1
            /\ procs' = SubSeq(<<Direct(b)>>, 1, started)
            /\ pipe' = pipe
            /\ joined' = IF started = 1 THEN joined ELSE JoinErr("spawn")
            /\ pc' = IF started = 1 THEN "wait" ELSE "drop"
    /\ UNCHANGED <<builder, bIn, bEof, captured, result>>

\* join returns once the last command has exited
BuildExecJoin ==
    /\ pc = "wait"
    /\ call.op = "build"
    /\ procs[Len(procs)].state = "exited"
    /\ \E waitOk \in BOOLEAN :
         joined' = IF waitOk THEN JoinOk(JoinStatus(procs)) ELSE JoinErr("wait")
    /\ pc' = "drop"
    /\ UNCHANGED <<builder, call, procs, pipe, bIn, bEof, captured, log, result>>

\* the Popen values are dropped and exec returns
BuildExecReturnStep ==
    /\ pc = "drop"
    /\ call.op = "build"
    /\ DropDone(procs)
    /\ result' = BuildExecReturn(call.build, joined)
    /\ pc' = "done"
    /\ UNCHANGED <<builder, call, procs, joined, pipe, bIn, bEof, captured, log>>

\* ------------------------------------------------------- edit, edit_with
RECURSIVE SplitAcc(_, _, _, _)
SplitAcc(s, sep, cur, acc) ==
    IF s = <<>> THEN Append(acc, cur)
    ELSE IF Head(s) = sep THEN SplitAcc(Tail(s), sep, <<>>, Append(acc, cur))
    ELSE SplitAcc(Tail(s), sep, Append(cur, Head(s)), acc)

\* str::split(char): the pieces between the separators, at least one
Split(s, sep) == SplitAcc(s, sep, <<>>, <<>>)

RECURSIVE Join(_, _)
\* [&str]::join(sep)
Join(pieces, sep) ==
    IF Len(pieces) = 0 THEN <<>>
    ELSE IF Len(pieces) = 1 THEN pieces[1]
    ELSE pieces[1] \o <<sep>> \o Join(Tail(pieces), sep)

\* mutant of Flakedir: the reference is cut at its first '#', wherever it is
FlakedirWholeCut(flakeref) == Head(Split(flakeref, "#"))

\* the working directory edit_with computes from the flake reference
Flakedir(flakeref) ==
    LET pieces == Split(flakeref, "/")
        last == pieces[Len(pieces)]
        removed == SubSeq(pieces, 1, Len(pieces) - 1)
        final_piece == Head(Split(last, "#"))
    IN  Join(Append(removed, final_piece), "/")

\* mutant of EditorFromEnv: an unset EDITOR falls back to vi
EditorFromEnvFallback(env) ==
    [panic |-> FALSE, editor |-> IF env.some THEN env.val ELSE "vi"]

\* std::env::var("EDITOR").expect("EDITOR not set")
EditorFromEnv(env) ==
    IF env.some THEN [panic |-> FALSE, editor |-> env.val]
    ELSE [panic |-> TRUE, editor |-> ""]

\* Exec::cmd(editor).args(&vec!["."]).cwd(flakedir), stdout and stderr inherited
EditorProc(flakeref, editor) ==
    ProcRec(editor, <<".">>, [some |-> TRUE, val |-> Flakedir(flakeref)],
            "Inherit", "Inherit", "Inherit")

\* .join()? ; Ok(())
EditWithReturn(j) == IF j.ok THEN Ok ELSE Err("PopenError")

\* the body of edit_with up to the point where it blocks in join
EditWithStart(flakeref, editor, spawnOk) ==
    IF spawnOk
    THEN /\ procs' = <<EditorProc(flakeref, editor)>>
         /\ pc' = "wait"
         /\ UNCHANGED <<joined, result>>
    ELSE /\ joined' = JoinErr("spawn")
         /\ result' = EditWithReturn(JoinErr("spawn"))
         /\ pc' = "done"
         /\ procs' = procs

EditWith(flakeref, editor, spawnOk) ==
    /\ pc = "idle"
    /\ builder = EmptyBuilder
    /\ call' = [call EXCEPT !.op = "edit_with", !.flakeref = flakeref,
                            !.editor = Some(editor)]
    /\ EditWithStart(flakeref, editor, spawnOk)
    /\ UNCHANGED <<builder, pipe, bIn, bEof, captured, log>>

\* edit: env is the value of EDITOR in the environment, if set
Edit(flakeref, env, spawnOk) ==
    /\ pc = "idle"
    /\ builder = EmptyBuilder
    /\ call' = [call EXCEPT !.op = "edit", !.flakeref = flakeref, !.editor = env]
    /\ LET e == EditorFromEnv(env) IN
       IF e.panic
       THEN /\ result' = Panic("EDITOR not set")
            /\ pc' = "done"
            /\ UNCHANGED <<procs, joined>>
       ELSE EditWithStart(flakeref, e.editor, spawnOk)
    /\ UNCHANGED <<builder, pipe, bIn, bEof, captured, log>>

\* join returns once the editor has exited
EditJoin ==
    /\ pc = "wait"
    /\ call.op \in {"edit", "edit_with"}
    /\ procs[1].state = "exited"
    /\ \E waitOk \in BOOLEAN :
         LET j == IF waitOk THEN JoinOk(procs[1].status) ELSE JoinErr("wait") IN
         /\ joined' = j
         /\ result' = EditWithReturn(j)
    /\ pc' = "done"
    /\ UNCHANGED <<builder, call, procs, pipe, bIn, bEof, captured, log>>

\* ------------------------------------------------------- specification
FlakeRefs == SeqsUpTo(RefChars, MaxRefLen)
EditorEnvs == {None} \cup {Some(e) : e \in Editors}

Next ==
    \/ \E input \in SeqsUpTo(ArgWords, MaxArgs) : BuilderArgs(input)
    \/ \E d \in BOOLEAN : BuilderDry(d)
    \/ \E m \in Messages : BuilderMessage(m)
    \/ Build
    \/ CommandExec
    \/ CommandExecJoin
    \/ CommandExecCapture
    \/ CommandExecCaptureJoin
    \/ \E b \in BuildCommands, started \in 0..2 : BuildExec(b, started)
    \/ BuildExecJoin
    \/ BuildExecReturnStep
    \/ \E f \in FlakeRefs, e \in Editors, ok \in BOOLEAN : EditWith(f, e, ok)
    \/ \E f \in FlakeRefs, env \in EditorEnvs, ok \in BOOLEAN : Edit(f, env, ok)
    \/ EditJoin
    \/ \E i \in 1..2, fd \in Fds, b \in Bytes : ChildWrite(i, fd, b)
    \/ \E i \in 1..2, st \in ExitStatuses : ChildExit(i, st)
    \/ StageBRead
    \/ StageBEof

Spec == Init /\ [][Next]_vars

\* ------------------------------------------------------- properties
Running(op) == call.op = op
Done(op) == call.op = op /\ pc = "done"

\* bytes the child wrote to its standard output
StdoutBytes(p) ==
    LET outs == SelectSeq(p.wrote, LAMBDA w : w.fd = "stdout")
    IN  [i \in 1..Len(outs) |-> outs[i].byte]

\* C1: a Command with non-empty args and dry = true, with or without a
\* message: exec has returned success and no process was spawned.
C1_DryExecSucceedsWithoutSpawn ==
    (Running("exec") /\ call.cmd.args # <<>> /\ call.cmd.dry)
        => /\ pc = "done"
           /\ result.kind = "Ok"
           /\ procs = <<>>
           /\ joined = NoJoin

C1_Witness ==
    /\ Done("exec")
    /\ call.cmd.dry
    /\ Len(call.cmd.args) = 2
    /\ call.cmd.message.some
    /\ result.kind = "Ok"

\* C2: a Command with empty args: exec and exec_capture both fail with
\* "Args was length 0", dry or not, and no process was spawned.
C2_EmptyArgsFail ==
    ((Running("exec") \/ Running("exec_capture")) /\ call.cmd.args = <<>>)
        => /\ pc = "done"
           /\ result.kind = "Err"
           /\ result.err = "Args was length 0"
           /\ procs = <<>>
           /\ joined = NoJoin

C2_Witness ==
    /\ Done("exec_capture")
    /\ call.cmd.args = <<>>
    /\ ~call.cmd.dry
    /\ result.kind = "Err"

\* C3: exec_capture with non-empty args: dry gives an absent result and spawns
\* nothing; a run that was spawned and captured gives a present result whose
\* text is what the child wrote to standard output (one character per byte,
\* each text byte unchanged), so a present empty string differs from absent.
C3_CaptureResult ==
    /\ (Running("exec_capture") /\ call.cmd.args # <<>> /\ call.cmd.dry)
          => /\ pc = "done"
             /\ result.kind = "Ok"
             /\ ~result.value.some
             /\ procs = <<>>
    /\ (Done("exec_capture") /\ ~call.cmd.dry /\ joined.ok)
          => LET out == StdoutBytes(procs[1]) IN
             /\ result.kind = "Ok"
             /\ result.value.some
             /\ Len(result.value.val) = Len(out)
             /\ \A i \in 1..Len(out) : out[i] < 128 => result.value.val[i] = out[i]
             /\ result.value # NoText

C3_Witness ==
    /\ Done("exec_capture")
    /\ ~call.cmd.dry
    /\ joined.ok
    /\ StdoutBytes(procs[1]) = <<>>
    /\ Len(procs[1].wrote) > 0
    /\ result.value = [some |-> TRUE, val |-> <<>>]

\* C4: BuildCommand.exec in direct mode returns success exactly when the
\* build tool's terminal status is Exited(0); any other terminal status gives
\* an ExitError carrying that status.
C4_DirectClassification ==
    (Done("build") /\ ~call.build.nom)
        => /\ joined.ok => (Len(procs) = 1 /\ joined.status = procs[1].status)
           /\ result.kind = "Ok" <=> (joined.ok /\ procs[1].status = Exited(0))
           /\ (joined.ok /\ procs[1].status # Exited(0))
                 => /\ result.kind = "Err"
                    /\ result.err = "ExitError"
                    /\ result.status = procs[1].status

C4_Witness ==
    /\ Done("build")
    /\ ~call.build.nom
    /\ joined.ok
    /\ procs[1].status = Signaled(9)
    /\ result.err = "ExitError"
    /\ result.status = Signaled(9)

\* C5: in pipeline mode, under every interleaving: when stage B sees
\* end-of-input it has received every byte stage A wrote to stdout or stderr;
\* exec has returned only when every stage has exited; and a step in which
\* stage A exits leaves stage B as it was.
C5_PipeState ==
    IsPipeline
        => /\ bEof => (Len(procs) = 2 /\ bIn = WroteBytes(procs[1]))
           /\ pc = "done" => \A i \in 1..Len(procs) : procs[i].state = "exited"
           /\ pc = "wait" => Len(procs) = 2

C5_StageAExitStep ==
    (/\ IsPipeline
     /\ Len(procs) = 2
     /\ procs[1].state = "running"
     /\ procs'[1].state = "exited")
        => (procs'[2] = procs[2] /\ bIn' = bIn /\ pipe'.buf = pipe.buf)

C5_PipelineRunsToCompletion == [](C5_PipeState) /\ [][C5_StageAExitStep]_vars

C5_Witness ==
    /\ IsPipeline
    /\ pc = "done"
    /\ bEof
    /\ Len(bIn) = 2
    /\ \E i \in 1..Len(procs[1].wrote) : procs[1].wrote[i].fd = "stderr"
    /\ procs[1].status = Signaled(9)
    /\ result.kind = "Ok"

\* the reference with its last '/'-separated segment cut at that segment's
\* first '#', by positions
ExpectedDir(s) ==
    LET slashes == {i \in 1..Len(s) : s[i] = "/"}
        lastSlash == IF slashes = {} THEN 0
                     ELSE CHOOSE i \in slashes : \A j \in slashes : j <= i
        hashes == {i \in (lastSlash + 1)..Len(s) : s[i] = "#"}
        cut == IF hashes = {} THEN Len(s)
               ELSE (CHOOSE i \in hashes : \A j \in hashes : i <= j) - 1
    IN  SubSeq(s, 1, cut)

\* C6: the editor is spawned with the single argument "." in the directory
\* that is the reference with its last segment cut at that segment's first
\* '#'; "a/b/c#output" gives "a/b/c", "x#y" gives "x", and a reference with
\* neither '/' nor '#' gives itself.
C6_EditorDirectory ==
    /\ ((Running("edit") \/ Running("edit_with")) /\ procs # <<>>)
          => /\ Len(procs) = 1
             /\ procs[1].cwd = [some |-> TRUE, val |-> ExpectedDir(call.flakeref)]
             /\ procs[1].args = <<".">>
             /\ procs[1].prog = call.editor.val
             /\ ({"/", "#"} \cap {call.flakeref[i] : i \in 1..Len(call.flakeref)} = {}
                    => procs[1].cwd.val = call.flakeref)
    /\ Flakedir(<<"a", "/", "b", "/", "c", "#", "o", "u", "t", "p", "u", "t">>)
          = <<"a", "/", "b", "/", "c">>
    /\ Flakedir(<<"x", "#", "y">>) = <<"x">>

C6_Witness ==
    /\ Running("edit_with")
    /\ call.flakeref = <<"#", "/", "a", "#">>
    /\ Len(procs) = 1
    /\ procs[1].cwd.val = <<"#", "/", "a">>

\* C7: exec with non-empty args and dry = false returns success whenever the
\* child was spawned and waited on, whatever its exit status; it fails only
\* when the spawn or the wait fails, and that failure carries the message as
\* context exactly when a message was set.
C7_ExecIgnoresExitStatus ==
    (Done("exec") /\ call.cmd.args # <<>> /\ ~call.cmd.dry)
        => /\ joined.ok => (result = Ok /\ joined.status = procs[1].status)
           /\ ~joined.ok => /\ result.kind = "Err"
                            /\ result.err = "PopenError"
                            /\ result.context = call.cmd.message
                            /\ joined.err \in {"spawn", "wait"}

C7_Witness ==
    /\ Done("exec")
    /\ ~call.cmd.dry
    /\ joined.ok
    /\ procs[1].status = Exited(1)
    /\ result = Ok

\* C8: whenever BuildCommand.exec ends with a terminal status other than
\* Exited(0), the failure is an ExitError carrying that status and has the
\* BuildCommand's message attached as context.
C8_ExitErrorHasMessage ==
    (Done("build") /\ joined.ok /\ joined.status # Exited(0))
        => /\ result.kind = "Err"
           /\ result.err = "ExitError"
           /\ result.status = joined.status
           /\ result.context = Some(call.build.message)

\* C9: in pipeline mode the status classified is stage B's alone: B exiting 0
\* gives success even when A did not exit 0, and any other status of B gives
\* an ExitError carrying B's status, whatever A's status.
C9_LastStageDecides ==
    (Done("build") /\ call.build.nom /\ joined.ok)
        => /\ Len(procs) = 2
           /\ procs[2].status = Exited(0) => result = Ok
           /\ procs[2].status # Exited(0)
                 => /\ result.kind = "Err"
                    /\ result.err = "ExitError"
                    /\ result.status = procs[2].status

C9_Witness ==
    /\ Done("build")
    /\ call.build.nom
    /\ joined.ok
    /\ procs[1].status = Exited(1)
    /\ procs[2].status = Exited(0)
    /\ result = Ok

\* C10: edit with EDITOR unset fails at once, for every reference: nothing
\* is spawned and the body of edit_with is not entered.
C10_EditWithoutEditor ==
    (Running("edit") /\ ~call.editor.some)
        => /\ pc = "done"
           /\ result.kind = "Panic"
           /\ procs = <<>>
           /\ joined = NoJoin

C10_Witness ==
    /\ Done("edit")
    /\ ~call.editor.some
    /\ call.flakeref = <<"a", "/", "a", "#">>
    /\ result.kind = "Panic"

====
